---- MODULE Spec2Model ----
(***************************************************************************)
(* AcetanilideVirtualLab (client/src/components/acetanilide-virtual-lab.tsx)*)
(* as a state machine.                                                     *)
(*                                                                         *)
(* The component holds React state (labState, chemicals, equipment,        *)
(* draggedItem) and receives the step as a prop.  Its handlers and effects *)
(* are closures of the last render: they READ the values of that render    *)
(* (variable rendered) and WRITE through functional updaters               *)
(* setLabState(prev => ...), which React applies in order to the latest    *)
(* state.  labState, chemicals, equipment and draggedItem below are that   *)
(* latest state (every queued updater applied); rendered is what the       *)
(* closures see until the next Render.                                     *)
(*                                                                         *)
(* Numbers with a fractional step in the source (temperature, progress,    *)
(* crystal formation) are kept in tenths: 22 degrees is 220, +1.5 is 15.   *)
(* The time-of-day prefix of a checkpoint line is left out of the text.    *)
(***************************************************************************)
EXTENDS Integers, Sequences, FiniteSets, TLC

VARIABLES
    labState,          \* useState<LabState>, latest value
    chemicals,         \* useState<Chemical[]>: id -> added
    equipment,         \* useState<Equipment[]>: id -> used
    draggedItem,       \* useState: chemical id being dragged, or "none"
    step,              \* props.step.id as last passed by the parent
    rendered,          \* the values captured by the closures of the last render
    dirty,             \* arrays whose identity changed since the last render
    timerIntervalRef,  \* timerIntervalRef.current: "unset", "live" or "cleared"
    orphanTimers,      \* live countdown intervals no longer held by the ref
    tempInterval,      \* the 500 ms interval of the temperature effect is live
    phase,             \* "mounting" (rendered, effects not yet run), "mounted", "unmounted"
    pending            \* state updates queued since the last render

vars == <<labState, chemicals, equipment, draggedItem, step, rendered, dirty,
          timerIntervalRef, orphanTimers, tempInterval, phase, pending>>

----------------------------------------------------------------------------
(* Bounds of the model.  The component itself limits neither the length of *)
(* its progress log, nor the updates queued before a render, nor the       *)
(* countdown: each specification follows it up to the bounds below.        *)
(* A batch is what React has queued when it renders: updates of interval   *)
(* callbacks waiting for the scheduler, and of handlers called in the same *)
(* task, all of them closures of the previous render.                      *)

\* Spec: lines of the progress log, updates queued before a render, seconds counted
MaxLog == 2
MaxBatch == 2
MaxTimer == 3
\* largest step id the parent passes (ids above LastStepId have no case)
MaxStepId == 7
\* leaked countdown intervals tracked at most
MaxOrphans == 2
\* SpecGate: the bench of step 1 (two chemicals, water, stirrer)
GateLog == 8
GateBatch == 2
\* SpecThermal: heating and cooling
ThermalLog == 4
ThermalBatch == 2
\* SpecLoad: loading the flask
LoadLog == 5
LoadBatch == 2
\* SpecReaction: a loaded flask (five lines logged) heated, then cooled, at this step
ReactionLog == 9
ReactionBatch == 2
ReactionStep == 3
\* SpecInterleave: both intervals and a drop queued together
InterleaveLog == 4
InterleaveBatch == 3
InterleaveTimer == 2
\* SpecTimer: the countdown started, paused, reset and started again
TimerLog == 4
TimerBatch == 2
TimerSeconds == 2
\* SpecProcedure: the whole procedure (sixteen lines logged, 31 seconds counted)
ProcedureLog == 16
ProcedureBatch == 2
ProcedureTimer == 31
\* SpecDrift: cooled, heated and stopped again (five lines logged)
DriftLog == 5
DriftBatch == 2
\* SpecReheat: a loaded flask after this many ticks of heating and then of cooling
\* (nine lines logged), reheated, stirred or cooled again
HeatTicks == 80
CoolTicks == 54
ReheatLog == 13
ReheatBatch == 1
CrystalLog == 14
CrystalBatch == 1
ToggleLog == 6
ToggleBatch == 2
\* SpecProgress: a flask without acetic anhydride, timed (four lines logged), stirred, heated
ProgressLog == 9
ProgressBatch == 2
ProgressTimer == 1

----------------------------------------------------------------------------
(* Program constants, in tenths where the source has a fraction *)

Ambient == 220
HeatTarget == 700
CoolTarget == 50
HeatStep == 15
CoolStep == 20
AmbientStep == 3
ProgressStep == 15
CrystalStep == 20
Full == 1000
ReactAbove == 600
CrystalBelow == 100
CrystalAfter == 800
MinContents == 3
MaxBubbles == 8
StirSpeed == 300
LastStepId == 5

ChemIds == {"aniline", "glacial_acetic", "acetic_anhydride", "distilled_water"}
EquipIds == {"round_flask", "condenser", "dropping_funnel", "magnetic_stirrer",
             "ice_bath", "thermometer"}
StepIds == 1..MaxStepId

Min(a, b) == IF a <= b THEN a ELSE b
Max(a, b) == IF a >= b THEN a ELSE b

ChemName(id) ==
    CASE id = "aniline" -> "Aniline"
      [] id = "glacial_acetic" -> "Glacial Acetic Acid"
      [] id = "acetic_anhydride" -> "Acetic Anhydride"
      [] id = "distilled_water" -> "Distilled Water"

ChemColor(id) ==
    CASE id = "aniline" -> "#8B4513"
      [] id = "glacial_acetic" -> "#F0F8FF"
      [] id = "acetic_anhydride" -> "#FFFACD"
      [] id = "distilled_water" -> "#E6F3FF"

EquipName(id) ==
    CASE id = "round_flask" -> "Round Bottom Flask"
      [] id = "condenser" -> "Reflux Condenser"
      [] id = "dropping_funnel" -> "Dropping Funnel"
      [] id = "magnetic_stirrer" -> "Magnetic Stirrer"
      [] id = "ice_bath" -> "Ice Bath"
      [] id = "thermometer" -> "Thermometer"

InitialLabState ==
    [ temperature |-> Ambient,
      targetTemperature |-> Ambient,
      isHeating |-> FALSE,
      isCooling |-> FALSE,
      stirringSpeed |-> 0,
      reactionProgress |-> 0,
      flaskColor |-> "transparent",
      isReacting |-> FALSE,
      flaskContents |-> << >>,
      bubbleIntensity |-> 0,
      stepCompleted |-> FALSE,
      timer |-> 0,
      isTimerRunning |-> FALSE,
      checkpoints |-> << >>,
      canProceed |-> FALSE,
      isDropping |-> FALSE,
      dropRate |-> 1,
      waterFlow |-> FALSE,
      hasIce |-> FALSE,
      crystalFormation |-> 0 ]

Snapshot(ls, ch, di, st) ==
    [ labState |-> ls, chemicals |-> ch, draggedItem |-> di, step |-> st ]

Init ==
    /\ labState = InitialLabState
    /\ chemicals = [c \in ChemIds |-> FALSE]
    /\ equipment = [e \in EquipIds |-> FALSE]
    /\ draggedItem = "none"
    /\ step \in StepIds
    /\ rendered = Snapshot(labState, chemicals, draggedItem, step)
    /\ dirty = [chemicals |-> FALSE, equipment |-> FALSE]
    /\ timerIntervalRef = "unset"
    /\ orphanTimers = 0
    /\ tempInterval = FALSE
    /\ phase = "mounting"
    /\ pending = 0

----------------------------------------------------------------------------
(* Pure functions of the component *)

Has(contents, id) == \E i \in 1..Len(contents) : contents[i] = id

\* criteria whose step 2 reads the heater switch instead of the thermometer
CriteriaReadingHeater(stepId, ls) ==
    CASE stepId = 1 ->
            /\ Has(ls.flaskContents, "aniline")
            /\ Has(ls.flaskContents, "glacial_acetic")
            /\ ls.waterFlow
            /\ ls.stirringSpeed > 0
      [] stepId = 2 ->
            /\ Has(ls.flaskContents, "acetic_anhydride")
            /\ ls.isHeating
            /\ ls.isDropping
      [] stepId = 3 ->
            /\ ls.reactionProgress > CrystalAfter
            /\ ls.isCooling
            /\ ls.crystalFormation > 500
      [] stepId = 4 ->
            /\ ls.crystalFormation > 800
            /\ Has(ls.flaskContents, "distilled_water")
      [] stepId = 5 ->
            /\ ls.timer > 30
            /\ ls.crystalFormation >= Full
      [] OTHER -> TRUE

\* criteria whose switch ends with default: return false
CriteriaDefaultClosed(stepId, ls) ==
    CASE stepId = 1 ->
            /\ Has(ls.flaskContents, "aniline")
            /\ Has(ls.flaskContents, "glacial_acetic")
            /\ ls.waterFlow
            /\ ls.stirringSpeed > 0
      [] stepId = 2 ->
            /\ Has(ls.flaskContents, "acetic_anhydride")
            /\ ls.temperature >= ReactAbove
            /\ ls.isDropping
      [] stepId = 3 ->
            /\ ls.reactionProgress > CrystalAfter
            /\ ls.temperature < CrystalBelow
            /\ ls.crystalFormation > 500
      [] stepId = 4 ->
            /\ ls.crystalFormation > 800
            /\ Has(ls.flaskContents, "distilled_water")
      [] stepId = 5 ->
            /\ ls.timer > 30
            /\ ls.crystalFormation >= Full
      [] OTHER -> FALSE

\* getStepCompletionCriteria(stepId), evaluated on the labState ls the closure holds
getStepCompletionCriteria(stepId, ls) ==
    CASE stepId = 1 ->
            /\ Has(ls.flaskContents, "aniline")
            /\ Has(ls.flaskContents, "glacial_acetic")
            /\ ls.waterFlow
            /\ ls.stirringSpeed > 0
      [] stepId = 2 ->
            /\ Has(ls.flaskContents, "acetic_anhydride")
            /\ ls.temperature >= ReactAbove
            /\ ls.isDropping
      [] stepId = 3 ->
            /\ ls.reactionProgress > CrystalAfter
            /\ ls.temperature < CrystalBelow
            /\ ls.crystalFormation > 500
      [] stepId = 4 ->
            /\ ls.crystalFormation > 800
            /\ Has(ls.flaskContents, "distilled_water")
      [] stepId = 5 ->
            /\ ls.timer > 30
            /\ ls.crystalFormation >= Full
      [] OTHER -> TRUE

getFlaskColor(contents) ==
    IF Len(contents) = 0 THEN "transparent"
    ELSE IF Has(contents, "aniline") /\ Has(contents, "acetic_anhydride") THEN "#F5DEB3"
    ELSE IF Has(contents, "aniline") THEN "#DEB887"
    ELSE ChemColor(contents[Len(contents)])

\* addCheckpoint's updater
addCheckpoint(ls, description) ==
    [ls EXCEPT !.checkpoints = Append(@, description)]

----------------------------------------------------------------------------
(* The two interval callbacks *)

\* TemperatureTick with one clamp left out
\* (which: "heat" no Math.min on the temperature, "progress" no Math.min on the
\* reaction progress, "short" heating that stops short instead of clamping,
\* "anhydride" a reaction that asks for acetic anhydride in the flask,
\* "crystal" crystals that form by the temperature before the tick,
\* "gate" a tick that also closes the gate,
\* "cool" no Math.max on the temperature while cooling,
\* "drift" an idle flask that also warms up to ambient from below,
\* "early" crystals that form in the cold whatever the reaction progress,
\* "melt" crystals that dissolve again above 60 degrees,
\* "lag" an isReacting flag computed from the temperature before the tick)
TickWithout(which, prev) ==
    LET newTemp ==
            IF prev.isHeating /\ prev.temperature < prev.targetTemperature
            THEN CASE which = "heat" -> prev.temperature + HeatStep
                   [] which = "short" ->
                        IF prev.temperature + HeatStep <= prev.targetTemperature
                        THEN prev.temperature + HeatStep ELSE prev.temperature
                   [] OTHER -> Min(prev.targetTemperature, prev.temperature + HeatStep)
            ELSE IF prev.isCooling /\ prev.temperature > prev.targetTemperature
            THEN IF which = "cool" THEN prev.temperature - CoolStep
                 ELSE Max(prev.targetTemperature, prev.temperature - CoolStep)
            ELSE IF ~prev.isHeating /\ ~prev.isCooling /\ prev.temperature > Ambient
            THEN Max(Ambient, prev.temperature - AmbientStep)
            ELSE IF /\ which = "drift"
                    /\ ~prev.isHeating /\ ~prev.isCooling /\ prev.temperature < Ambient
            THEN Min(Ambient, prev.temperature + AmbientStep)
            ELSE prev.temperature
        reacting ==
            /\ newTemp > ReactAbove
            /\ Len(prev.flaskContents) >= MinContents
            /\ prev.stirringSpeed > 0
    IN  [prev EXCEPT
            !.temperature = newTemp,
            !.reactionProgress =
                IF reacting /\ (which = "anhydride" => Has(prev.flaskContents, "acetic_anhydride"))
                THEN IF which = "progress" THEN @ + ProgressStep
                     ELSE Min(Full, @ + ProgressStep)
                ELSE @,
            !.crystalFormation =
                IF /\ (IF which = "crystal" THEN prev.temperature ELSE newTemp) < CrystalBelow
                   /\ (which = "early" \/ prev.reactionProgress > CrystalAfter)
                THEN Min(Full, @ + CrystalStep)
                ELSE IF which = "melt" /\ newTemp > ReactAbove
                THEN Max(0, @ - CrystalStep) ELSE @,
            !.isReacting =
                IF which = "lag"
                THEN /\ prev.temperature > ReactAbove
                     /\ Len(prev.flaskContents) >= MinContents
                     /\ prev.stirringSpeed > 0
                ELSE reacting,
            !.bubbleIntensity =
                IF prev.isReacting THEN Min(MaxBubbles, newTemp \div 100) ELSE 0,
            !.canProceed = IF which = "gate" THEN FALSE ELSE @]

TickUnclampedHeat(prev) == TickWithout("heat", prev)
TickUncappedProgress(prev) == TickWithout("progress", prev)
TickStopsShort(prev) == TickWithout("short", prev)
TickNeedsAnhydride(prev) == TickWithout("anhydride", prev)
TickCrystalByOldTemp(prev) == TickWithout("crystal", prev)
TickClosesGate(prev) == TickWithout("gate", prev)
TickUnclampedCool(prev) == TickWithout("cool", prev)
TickDriftsBothWays(prev) == TickWithout("drift", prev)
TickCrystalsEarly(prev) == TickWithout("early", prev)
TickMeltsCrystals(prev) == TickWithout("melt", prev)
TickReactingLags(prev) == TickWithout("lag", prev)

\* the updater of the 500 ms interval: prev => { ... }
TemperatureTick(prev) ==
    LET newTemp ==
            IF prev.isHeating /\ prev.temperature < prev.targetTemperature
            THEN Min(prev.targetTemperature, prev.temperature + HeatStep)
            ELSE IF prev.isCooling /\ prev.temperature > prev.targetTemperature
            THEN Max(prev.targetTemperature, prev.temperature - CoolStep)
            ELSE IF ~prev.isHeating /\ ~prev.isCooling /\ prev.temperature > Ambient
            THEN Max(Ambient, prev.temperature - AmbientStep)
            ELSE prev.temperature
        reacting ==
            /\ newTemp > ReactAbove
            /\ Len(prev.flaskContents) >= MinContents
            /\ prev.stirringSpeed > 0
        newProgress ==
            IF /\ Len(prev.flaskContents) >= MinContents
               /\ newTemp > ReactAbove
               /\ prev.stirringSpeed > 0
            THEN Min(Full, prev.reactionProgress + ProgressStep)
            ELSE prev.reactionProgress
        newCrystalFormation ==
            IF newTemp < CrystalBelow /\ prev.reactionProgress > CrystalAfter
            THEN Min(Full, prev.crystalFormation + CrystalStep)
            ELSE prev.crystalFormation
    IN  [prev EXCEPT
            !.temperature = newTemp,
            !.reactionProgress = newProgress,
            !.crystalFormation = newCrystalFormation,
            !.isReacting = reacting,
            !.bubbleIntensity =
                IF prev.isReacting THEN Min(MaxBubbles, newTemp \div 100) ELSE 0]

\* a countdown written against the closure: { ...prev, timer: labState.timer + 1 }
CountdownFromClosure(prev) == [prev EXCEPT !.timer = rendered.labState.timer + 1]

\* the updater of the 1 s interval: prev => ({ ...prev, timer: prev.timer + 1 })
CountdownUpdate(prev) == [prev EXCEPT !.timer = @ + 1]

\* handlers and interval callbacks act on a mounted component
Mounted == phase = "mounted"

TempTick ==
    /\ tempInterval
    /\ Mounted
    /\ labState' = TemperatureTick(labState)
    /\ pending' = pending + 1
    /\ UNCHANGED <<chemicals, equipment, draggedItem, step, rendered, dirty,
                   timerIntervalRef, orphanTimers, tempInterval, phase>>

CountdownTick ==
    /\ timerIntervalRef = "live" \/ orphanTimers > 0
    /\ Mounted
    /\ labState' = CountdownUpdate(labState)
    /\ pending' = pending + 1
    /\ UNCHANGED <<chemicals, equipment, draggedItem, step, rendered, dirty,
                   timerIntervalRef, orphanTimers, tempInterval, phase>>

----------------------------------------------------------------------------
(* User handlers.  Each reads the closure values (rendered) and queues updaters. *)

\* handleEquipmentUse: the labState part (addCheckpoint with the equipment's name)
handleEquipmentUse(ls, equipmentId) ==
    addCheckpoint(ls, "Used " \o EquipName(equipmentId))

\* handleEquipmentUse: the setEquipment part
UseEquipment(eq, equipmentId) == [eq EXCEPT ![equipmentId] = TRUE]

\* a map that rebuilds the other rows from the constant list (added: false)
MarkOnlyAdded(ch, chemicalId) == [c \in ChemIds |-> c = chemicalId]

\* setChemicals(prev => prev.map(c => c.id === chemicalId ? {...c, added: true} : c))
MarkAdded(ch, chemicalId) == [ch EXCEPT ![chemicalId] = TRUE]

\* the guard of handleChemicalDrop: the chemical exists and is not yet added,
\* read from the chemicals of the closure
DropAccepted(chemicalId) ==
    chemicalId \in ChemIds /\ ~rendered.chemicals[chemicalId]

\* handleChemicalDrop's labState updaters
handleChemicalDrop(ls, chemicalId) ==
    addCheckpoint(
        [ls EXCEPT !.flaskContents = Append(@, chemicalId),
                   !.flaskColor = getFlaskColor(Append(ls.flaskContents, chemicalId))],
        "Added " \o ChemName(chemicalId) \o " to reaction flask")

\* onDragStart of an inventory row (draggable only while not added)
DragStart(c) ==
    /\ Mounted
    /\ ~rendered.chemicals[c]
    /\ draggedItem' = c
    /\ pending' = pending + 1
    /\ UNCHANGED <<labState, chemicals, equipment, step, rendered, dirty,
                   timerIntervalRef, orphanTimers, tempInterval, phase>>

\* FlaskComponent onDrop
Drop ==
    /\ Mounted
    /\ rendered.draggedItem # "none"
    /\ IF DropAccepted(rendered.draggedItem)
       THEN /\ chemicals' = MarkAdded(chemicals, rendered.draggedItem)
            /\ labState' = handleChemicalDrop(labState, rendered.draggedItem)
            /\ dirty' = [dirty EXCEPT !.chemicals = TRUE]
       ELSE UNCHANGED <<chemicals, labState, dirty>>
    /\ draggedItem' = "none"
    /\ pending' = pending + 1
    /\ UNCHANGED <<equipment, step, rendered, timerIntervalRef, orphanTimers,
                   tempInterval, phase>>

startTimer(ls) == addCheckpoint([ls EXCEPT !.isTimerRunning = TRUE], "Timer started")
pauseTimer(ls) == addCheckpoint([ls EXCEPT !.isTimerRunning = FALSE], "Timer paused")
resetTimer(ls) ==
    addCheckpoint([ls EXCEPT !.timer = 0, !.isTimerRunning = FALSE], "Timer reset")

\* a handler that only updates labState
LabOnly(new) ==
    /\ labState' = new
    /\ pending' = pending + 1
    /\ UNCHANGED <<chemicals, equipment, draggedItem, step, rendered, dirty,
                   timerIntervalRef, orphanTimers, tempInterval, phase>>

\* a handler that updates labState and marks a piece of equipment used
LabAndEquipment(new, equipmentId) ==
    /\ labState' = new
    /\ equipment' = UseEquipment(equipment, equipmentId)
    /\ dirty' = [dirty EXCEPT !.equipment = TRUE]
    /\ pending' = pending + 1
    /\ UNCHANGED <<chemicals, draggedItem, step, rendered,
                   timerIntervalRef, orphanTimers, tempInterval, phase>>

\* the play/pause button: onClick={labState.isTimerRunning ? pauseTimer : startTimer}
TimerButton ==
    /\ Mounted
    /\ IF rendered.labState.isTimerRunning
       THEN LabOnly(pauseTimer(labState))
       ELSE LabOnly(startTimer(labState))

ResetButton ==
    /\ Mounted
    /\ LabOnly(resetTimer(labState))

\* a startHeating that leaves the cooling switch alone
HeatingKeepsCooling(ls) ==
    addCheckpoint(
        handleEquipmentUse(
            [ls EXCEPT !.isHeating = TRUE, !.targetTemperature = HeatTarget],
            "round_flask"),
        "Started heating under reflux")

startHeating(ls) ==
    addCheckpoint(
        handleEquipmentUse(
            [ls EXCEPT !.isHeating = TRUE, !.isCooling = FALSE,
                       !.targetTemperature = HeatTarget],
            "round_flask"),
        "Started heating under reflux")

stopHeating(ls) == addCheckpoint([ls EXCEPT !.isHeating = FALSE], "Stopped heating")

startCooling(ls) ==
    addCheckpoint(
        handleEquipmentUse(
            [ls EXCEPT !.isCooling = TRUE, !.isHeating = FALSE,
                       !.targetTemperature = CoolTarget, !.hasIce = TRUE],
            "ice_bath"),
        "Started cooling in ice bath")

\* the heat button: onClick={labState.isHeating ? stopHeating : startHeating}
HeatButton ==
    /\ Mounted
    /\ IF rendered.labState.isHeating
       THEN LabOnly(stopHeating(labState))
       ELSE LabAndEquipment(startHeating(labState), "round_flask")

CoolButton ==
    /\ Mounted
    /\ LabAndEquipment(startCooling(labState), "ice_bath")

startStirring(ls, speed) ==
    addCheckpoint(
        handleEquipmentUse([ls EXCEPT !.stirringSpeed = speed], "magnetic_stirrer"),
        IF speed > 0
        THEN "Started magnetic stirring at speed " \o ToString(speed)
        ELSE "Stopped magnetic stirring")

\* the stir button: onClick={() => startStirring(labState.stirringSpeed > 0 ? 0 : 300)}
StirButton ==
    /\ Mounted
    /\ LabAndEquipment(
          startStirring(labState,
                        IF rendered.labState.stirringSpeed > 0 THEN 0 ELSE StirSpeed),
          "magnetic_stirrer")

\* toggleDropping: the flag flips on the latest state, the branch is chosen from the closure
toggleDropping(ls, wasDropping) ==
    LET flipped == [ls EXCEPT !.isDropping = ~@]
    IN  IF ~wasDropping
        THEN addCheckpoint(handleEquipmentUse(flipped, "dropping_funnel"),
                           "Started dropwise addition of acetic anhydride")
        ELSE addCheckpoint(flipped, "Stopped dropwise addition")

ToggleDropping ==
    /\ Mounted
    /\ IF ~rendered.labState.isDropping
       THEN LabAndEquipment(toggleDropping(labState, FALSE), "dropping_funnel")
       ELSE LabOnly(toggleDropping(labState, TRUE))

toggleWaterFlow(ls, hadWater) ==
    LET flipped == [ls EXCEPT !.waterFlow = ~@]
    IN  IF ~hadWater
        THEN addCheckpoint(handleEquipmentUse(flipped, "condenser"),
                           "Started cooling water flow")
        ELSE addCheckpoint(flipped, "Stopped cooling water flow")

ToggleWaterFlow ==
    /\ Mounted
    /\ IF ~rendered.labState.waterFlow
       THEN LabAndEquipment(toggleWaterFlow(labState, FALSE), "condenser")
       ELSE LabOnly(toggleWaterFlow(labState, TRUE))

\* IceBath onAddIce, rendered only while cooling or iced
AddIce ==
    /\ Mounted
    /\ rendered.labState.isCooling \/ rendered.labState.hasIce
    /\ LabOnly([labState EXCEPT !.hasIce = TRUE])

\* the proceed button: disabled={!labState.canProceed}; onStepComplete makes the
\* parent pass the next step
Proceed ==
    /\ Mounted
    /\ rendered.labState.canProceed
    /\ step < MaxStepId
    /\ step' = step + 1
    /\ pending' = pending + 1
    /\ UNCHANGED <<labState, chemicals, equipment, draggedItem, rendered, dirty,
                   timerIntervalRef, orphanTimers, tempInterval, phase>>

----------------------------------------------------------------------------
(* Effects, run after a render with the closure values of that render *)

\* a clearInterval that leaves the interval running
ClearLeavesLive(ref) == ref

\* clearInterval(timerIntervalRef.current), guarded by if (timerIntervalRef.current)
ClearTimerInterval(ref) == IF ref = "live" THEN "cleared" ELSE ref

\* a timer effect that returns no cleanup
TimerCleanupMissing(ref) == ref

\* the cleanup returned by the timer effect
TimerCleanup(ref) == ClearTimerInterval(ref)

\* the body of the timer effect: the ref it leaves
TimerEffectRef(ref, isTimerRunning) ==
    IF isTimerRunning THEN "live" ELSE ClearTimerInterval(ref)

\* the body of the timer effect: intervals left running without a holder
TimerEffectOrphans(ref, isTimerRunning, orphans) ==
    IF isTimerRunning /\ ref = "live" THEN Min(MaxOrphans, orphans + 1) ELSE orphans

\* the cleanup returned by the temperature effect: clearInterval(interval)
TempCleanup(live) == FALSE

\* a completion effect with an empty dependency list: it runs on mount only
CompletionOnMountOnly(snap) == FALSE

\* dependency list of the completion effect, compared with the previous render
CompletionDepsChanged(snap) ==
    \/ dirty.chemicals
    \/ dirty.equipment
    \/ snap.labState.reactionProgress # rendered.labState.reactionProgress
    \/ snap.labState.timer # rendered.labState.timer
    \/ snap.labState.temperature # rendered.labState.temperature
    \/ snap.labState.crystalFormation # rendered.labState.crystalFormation
    \/ snap.step # rendered.step

\* a completion effect that logs on every run with the criteria met
CompletionLogsEveryRun(ls, snap) ==
    LET canProceed == getStepCompletionCriteria(snap.step, snap.labState)
        set == [ls EXCEPT !.canProceed = canProceed, !.stepCompleted = canProceed]
    IN  IF canProceed
        THEN addCheckpoint(set,
                 "Step " \o ToString(snap.step) \o " requirements completed successfully")
        ELSE set

\* checkCompletion: the criteria and stepCompleted are read from the closure (snap),
\* the updaters are applied to the latest state (ls)
checkCompletion(ls, snap) ==
    LET canProceed == getStepCompletionCriteria(snap.step, snap.labState)
        set == [ls EXCEPT !.canProceed = canProceed, !.stepCompleted = canProceed]
    IN  IF canProceed /\ ~snap.labState.stepCompleted
        THEN addCheckpoint(set,
                 "Step " \o ToString(snap.step) \o " requirements completed successfully")
        ELSE set

\* first run of the effects after the initial render
Mount ==
    /\ phase = "mounting"
    /\ phase' = "mounted"
    /\ timerIntervalRef' = TimerEffectRef(timerIntervalRef, rendered.labState.isTimerRunning)
    /\ orphanTimers' = TimerEffectOrphans(timerIntervalRef,
                                          rendered.labState.isTimerRunning, orphanTimers)
    /\ tempInterval' = TRUE
    /\ labState' = checkCompletion(labState, rendered)
    /\ pending' = 1
    /\ UNCHANGED <<chemicals, equipment, draggedItem, step, rendered, dirty>>

\* React renders with the latest state and runs the effects whose dependencies changed
Render ==
    /\ phase = "mounted"
    /\ pending > 0
    /\ LET snap == Snapshot(labState, chemicals, draggedItem, step)
           timerDeps == snap.labState.isTimerRunning # rendered.labState.isTimerRunning
           cleaned == TimerCleanup(timerIntervalRef)
           completion == CompletionDepsChanged(snap)
       IN  /\ rendered' = snap
           /\ dirty' = [chemicals |-> FALSE, equipment |-> FALSE]
           /\ IF timerDeps
              THEN /\ timerIntervalRef' =
                          TimerEffectRef(cleaned, snap.labState.isTimerRunning)
                   /\ orphanTimers' =
                          TimerEffectOrphans(cleaned, snap.labState.isTimerRunning,
                                             orphanTimers)
              ELSE UNCHANGED <<timerIntervalRef, orphanTimers>>
           /\ IF completion
              THEN labState' = checkCompletion(labState, snap) /\ pending' = 1
              ELSE UNCHANGED labState /\ pending' = 0
    /\ UNCHANGED <<chemicals, equipment, draggedItem, step, tempInterval, phase>>

\* the parent removes the component: every effect's cleanup runs
Unmount ==
    /\ phase = "mounted"
    /\ phase' = "unmounted"
    /\ timerIntervalRef' = TimerCleanup(timerIntervalRef)
    /\ tempInterval' = TempCleanup(tempInterval)
    /\ UNCHANGED <<labState, chemicals, equipment, draggedItem, step, rendered, dirty,
                   orphanTimers, pending>>

----------------------------------------------------------------------------
(* Specifications *)

\* a step that stays within the bounds b of a specification: it adds no line to
\* a progress log that is full
Bound(b, A) ==
    /\ A
    /\ \/ labState'.checkpoints = labState.checkpoints
       \/ Len(labState'.checkpoints) <= b.log
    /\ pending' <= b.batch
    /\ labState'.timer <= b.timer

SpecBounds == [log |-> MaxLog, batch |-> MaxBatch, timer |-> MaxTimer]

Next ==
    \/ Mount
    \/ Render
    \/ Unmount
    \/ Bound(SpecBounds, TempTick)
    \/ Bound(SpecBounds, CountdownTick)
    \/ \E c \in ChemIds : Bound(SpecBounds, DragStart(c))
    \/ Bound(SpecBounds, Drop)
    \/ Bound(SpecBounds, TimerButton)
    \/ Bound(SpecBounds, ResetButton)
    \/ Bound(SpecBounds, HeatButton)
    \/ Bound(SpecBounds, CoolButton)
    \/ Bound(SpecBounds, StirButton)
    \/ Bound(SpecBounds, ToggleDropping)
    \/ Bound(SpecBounds, ToggleWaterFlow)
    \/ Bound(SpecBounds, AddIce)
    \/ Bound(SpecBounds, Proceed)

Spec == Init /\ [][Next]_vars

----------------------------------------------------------------------------
(* The bench of step 1: chemicals dropped, water and stirrer switched *)

GateBounds == [log |-> GateLog, batch |-> GateBatch, timer |-> 0]

NextGate ==
    \/ Mount
    \/ Render
    \/ Bound(GateBounds, TempTick)
    \/ \E c \in {"aniline", "glacial_acetic"} : Bound(GateBounds, DragStart(c))
    \/ Bound(GateBounds, Drop)
    \/ Bound(GateBounds, StirButton)
    \/ Bound(GateBounds, ToggleWaterFlow)
    \/ Bound(GateBounds, Proceed)

SpecGate == Init /\ [][NextGate]_vars

----------------------------------------------------------------------------
(* Heating and cooling an empty flask *)

ThermalBounds == [log |-> ThermalLog, batch |-> ThermalBatch, timer |-> 0]

NextThermal ==
    \/ Mount
    \/ Render
    \/ Bound(ThermalBounds, TempTick)
    \/ Bound(ThermalBounds, HeatButton)
    \/ Bound(ThermalBounds, CoolButton)

SpecThermal == Init /\ [][NextThermal]_vars

\* the 500 ms interval keeps firing while mounted, and React renders what is queued
SpecThermalFair == SpecThermal /\ WF_vars(Bound(ThermalBounds, TempTick)) /\ WF_vars(Render)

----------------------------------------------------------------------------
(* The reaction: the flask already holds aniline, glacial acetic acid and  *)
(* acetic anhydride, dropped in this order, and the stirrer runs.  The     *)
(* state is built with the handlers' own updaters; Loaded is reachable     *)
(* from Init by DragStart, Render, Drop (three times) and StirButton.      *)
(* The parent shows step 3, "heat under reflux, cool, observe crystals".   *)

LoadedLabState ==
    startStirring(
        handleChemicalDrop(
            handleChemicalDrop(
                handleChemicalDrop(InitialLabState, "aniline"),
                "glacial_acetic"),
            "acetic_anhydride"),
        StirSpeed)

Loaded ==
    /\ labState = LoadedLabState
    /\ chemicals = [c \in ChemIds |-> c # "distilled_water"]
    /\ equipment = [e \in EquipIds |-> e = "magnetic_stirrer"]
    /\ draggedItem = "none"
    /\ step = ReactionStep
    /\ rendered = Snapshot(labState, chemicals, draggedItem, step)
    /\ dirty = [chemicals |-> FALSE, equipment |-> FALSE]
    /\ timerIntervalRef = "unset"
    /\ orphanTimers = 0
    /\ tempInterval = TRUE
    /\ phase = "mounted"
    /\ pending = 0

\* Loaded and Watered are reached under SpecLoad: TLC finds the invariants ~Loaded
\* and ~Watered violated there
LoadBounds == [log |-> LoadLog, batch |-> LoadBatch, timer |-> 0]

NextLoad ==
    \/ Mount
    \/ Render
    \/ \E c \in ChemIds : Bound(LoadBounds, DragStart(c))
    \/ Bound(LoadBounds, Drop)
    \/ Bound(LoadBounds, StirButton)
    \/ Bound(LoadBounds, TimerButton)

SpecLoad == Init /\ [][NextLoad]_vars

ReactionBounds == [log |-> ReactionLog, batch |-> ReactionBatch, timer |-> 0]

NextReaction ==
    \/ Render
    \/ Bound(ReactionBounds, TempTick)
    \/ Bound(ReactionBounds, HeatButton)
    \/ Bound(ReactionBounds, CoolButton)
    \/ Bound(ReactionBounds, StirButton)

SpecReaction == Loaded /\ [][NextReaction]_vars

----------------------------------------------------------------------------
(* Both intervals and a drop, queued before one render *)

InterleaveBounds ==
    [log |-> InterleaveLog, batch |-> InterleaveBatch, timer |-> InterleaveTimer]

NextInterleave ==
    \/ Mount
    \/ Render
    \/ Bound(InterleaveBounds, TempTick)
    \/ Bound(InterleaveBounds, CountdownTick)
    \/ Bound(InterleaveBounds, DragStart("aniline"))
    \/ Bound(InterleaveBounds, Drop)
    \/ Bound(InterleaveBounds, TimerButton)
    \/ Bound(InterleaveBounds, HeatButton)

\* followed at the first step
InitFirstStep == Init /\ step = 1

SpecInterleave == InitFirstStep /\ [][NextInterleave]_vars

----------------------------------------------------------------------------
(* Reaction progress without acetic anhydride: the flask holds aniline,    *)
(* glacial acetic acid and distilled water, dropped in this order, and the *)
(* timer has been started.  The state is built with the handlers' own      *)
(* updaters; Watered is reachable from Init by DragStart, Render, Drop     *)
(* (three times) and TimerButton.  The stirrer and the heater are switched *)
(* from there while the countdown runs.                                    *)

WateredLabState ==
    startTimer(
        handleChemicalDrop(
            handleChemicalDrop(
                handleChemicalDrop(InitialLabState, "aniline"),
                "glacial_acetic"),
            "distilled_water"))

Watered ==
    /\ labState = WateredLabState
    /\ chemicals = [c \in ChemIds |-> c # "acetic_anhydride"]
    /\ equipment = [e \in EquipIds |-> FALSE]
    /\ draggedItem = "none"
    /\ step = ReactionStep
    /\ rendered = Snapshot(labState, chemicals, draggedItem, step)
    /\ dirty = [chemicals |-> FALSE, equipment |-> FALSE]
    /\ timerIntervalRef = "live"
    /\ orphanTimers = 0
    /\ tempInterval = TRUE
    /\ phase = "mounted"
    /\ pending = 0

ProgressBounds == [log |-> ProgressLog, batch |-> ProgressBatch, timer |-> ProgressTimer]

NextProgress ==
    \/ Render
    \/ Bound(ProgressBounds, TempTick)
    \/ Bound(ProgressBounds, CountdownTick)
    \/ Bound(ProgressBounds, HeatButton)
    \/ Bound(ProgressBounds, StirButton)

SpecProgress == Watered /\ [][NextProgress]_vars

----------------------------------------------------------------------------
(* The countdown alone: play/pause and reset, the interval, mount and unmount *)

TimerBounds == [log |-> TimerLog, batch |-> TimerBatch, timer |-> TimerSeconds]

NextTimer ==
    \/ Mount
    \/ Render
    \/ Unmount
    \/ Bound(TimerBounds, CountdownTick)
    \/ Bound(TimerBounds, TimerButton)
    \/ Bound(TimerBounds, ResetButton)

SpecTimer == InitFirstStep /\ [][NextTimer]_vars

----------------------------------------------------------------------------
(* A student who follows the procedure, at any of the five steps: the four *)
(* chemicals are dropped in the order of the inventory, then water,        *)
(* stirrer and dropping funnel are switched on, the flask is heated until  *)
(* the reaction has passed 80 percent, cooled until the crystals are       *)
(* complete, and the timer is started.  The student drags and drops what   *)
(* the screen shows and presses no switch twice; the intervals and the     *)
(* renders run as they do in the component.                                *)

ProcedureOrder == <<"aniline", "glacial_acetic", "acetic_anhydride", "distilled_water">>

AllAdded == \A c \in ChemIds : chemicals[c]

StudentDrags ==
    \E i \in 1..Len(ProcedureOrder) :
        /\ \A j \in 1..(i - 1) : chemicals[ProcedureOrder[j]]
        /\ ~chemicals[ProcedureOrder[i]]
        /\ draggedItem = "none"
        /\ rendered.draggedItem = "none"
        /\ DragStart(ProcedureOrder[i])

StudentDrops ==
    /\ draggedItem # "none"
    /\ rendered.draggedItem = draggedItem
    /\ ~chemicals[draggedItem]
    /\ Drop

StudentStartsWater ==
    /\ AllAdded
    /\ ~labState.waterFlow /\ ~rendered.labState.waterFlow
    /\ ToggleWaterFlow

StudentStartsStirring ==
    /\ labState.waterFlow
    /\ labState.stirringSpeed = 0 /\ rendered.labState.stirringSpeed = 0
    /\ StirButton

StudentStartsDropping ==
    /\ labState.stirringSpeed > 0
    /\ ~labState.isDropping /\ ~rendered.labState.isDropping
    /\ ToggleDropping

StudentStartsHeating ==
    /\ labState.isDropping
    /\ ~labState.isHeating /\ ~rendered.labState.isHeating
    /\ ~labState.isCooling
    /\ labState.reactionProgress <= CrystalAfter
    /\ HeatButton

StudentStartsCooling ==
    /\ labState.reactionProgress > CrystalAfter
    /\ ~labState.isCooling
    /\ CoolButton

StudentStartsTimer ==
    /\ labState.crystalFormation = Full
    /\ ~labState.isTimerRunning /\ ~rendered.labState.isTimerRunning
    /\ TimerButton

ProcedureBounds == [log |-> ProcedureLog, batch |-> ProcedureBatch, timer |-> ProcedureTimer]

Student ==
    \/ Bound(ProcedureBounds, StudentDrags)
    \/ Bound(ProcedureBounds, StudentDrops)
    \/ Bound(ProcedureBounds, StudentStartsWater)
    \/ Bound(ProcedureBounds, StudentStartsStirring)
    \/ Bound(ProcedureBounds, StudentStartsDropping)
    \/ Bound(ProcedureBounds, StudentStartsHeating)
    \/ Bound(ProcedureBounds, StudentStartsCooling)
    \/ Bound(ProcedureBounds, StudentStartsTimer)

NextProcedure ==
    \/ Mount
    \/ Render
    \/ Bound(ProcedureBounds, TempTick)
    \/ Bound(ProcedureBounds, CountdownTick)
    \/ Student

\* mounted at one of the five steps of the experiment
InitProcedure == Init /\ step \in 1..LastStepId

\* the intervals keep firing, React renders what is queued, and the student
\* eventually makes the next move
SpecProcedure ==
    /\ InitProcedure
    /\ [][NextProcedure]_vars
    /\ WF_vars(Mount)
    /\ WF_vars(Render)
    /\ SF_vars(Bound(ProcedureBounds, TempTick))
    /\ SF_vars(Bound(ProcedureBounds, CountdownTick))
    /\ SF_vars(Student)

----------------------------------------------------------------------------
(* Heating and cooling at the first step, with room in the log for cooling, *)
(* heating and stopping the heater                                          *)

DriftBounds == [log |-> DriftLog, batch |-> DriftBatch, timer |-> 0]

NextDrift ==
    \/ Mount
    \/ Render
    \/ Bound(DriftBounds, TempTick)
    \/ Bound(DriftBounds, HeatButton)
    \/ Bound(DriftBounds, CoolButton)

SpecDrift == InitFirstStep /\ [][NextDrift]_vars

----------------------------------------------------------------------------
(* After the reaction: the loaded flask was heated until the reaction had  *)
(* passed 80 percent and cooled until the first crystals formed.  The      *)
(* state is built with the handlers' own updaters and the tick's; it is    *)
(* reached under SpecReaction (TLC finds ~Crystallized violated there).    *)
(* From there the flask is reheated, cooled again and the stirrer stopped. *)

\* n ticks of the 500 ms interval in a row (the comparison makes TLC evaluate
\* each tick before the next one is applied)
RECURSIVE Ticks(_, _)
Ticks(n, ls) ==
    IF n = 0 THEN ls
    ELSE LET next == TemperatureTick(ls)
         IN  IF next.temperature = ls.temperature THEN Ticks(n - 1, next)
             ELSE Ticks(n - 1, next)

CrystallizedLabState ==
    Ticks(CoolTicks, startCooling(Ticks(HeatTicks, startHeating(LoadedLabState))))

Crystallized ==
    /\ labState = CrystallizedLabState
    /\ chemicals = [c \in ChemIds |-> c # "distilled_water"]
    /\ equipment = [e \in EquipIds |-> e \in {"magnetic_stirrer", "round_flask", "ice_bath"}]
    /\ draggedItem = "none"
    /\ step = ReactionStep
    /\ rendered = Snapshot(labState, chemicals, draggedItem, step)
    /\ dirty = [chemicals |-> FALSE, equipment |-> FALSE]
    /\ timerIntervalRef = "unset"
    /\ orphanTimers = 0
    /\ tempInterval = TRUE
    /\ phase = "mounted"
    /\ pending = 0

ReheatBounds == [log |-> ReheatLog, batch |-> ReheatBatch, timer |-> 0]

NextReheat ==
    \/ Render
    \/ Bound(ReheatBounds, TempTick)
    \/ Bound(ReheatBounds, HeatButton)
    \/ Bound(ReheatBounds, CoolButton)
    \/ Bound(ReheatBounds, StirButton)

SpecReheat == Crystallized /\ [][NextReheat]_vars

----------------------------------------------------------------------------
(* Crystallization, step 3: the crystallized flask is reheated and cooled again *)

CrystalBounds == [log |-> CrystalLog, batch |-> CrystalBatch, timer |-> 0]

NextCrystal ==
    \/ Render
    \/ Bound(CrystalBounds, TempTick)
    \/ Bound(CrystalBounds, HeatButton)
    \/ Bound(CrystalBounds, CoolButton)

SpecCrystal == Crystallized /\ [][NextCrystal]_vars

----------------------------------------------------------------------------
(* The two toggles: cooling water and dropping funnel *)

ToggleBounds == [log |-> ToggleLog, batch |-> ToggleBatch, timer |-> 0]

NextToggle ==
    \/ Mount
    \/ Render
    \/ Bound(ToggleBounds, ToggleWaterFlow)
    \/ Bound(ToggleBounds, ToggleDropping)

SpecToggle == InitFirstStep /\ [][NextToggle]_vars

----------------------------------------------------------------------------
(* Properties *)

\* nothing is queued: the closures hold the latest state and every effect has run
Settled == phase = "mounted" /\ pending = 0

IsPrefix(a, b) == Len(a) <= Len(b) /\ SubSeq(b, 1, Len(a)) = a

Count(contents, id) == Cardinality({i \in 1..Len(contents) : contents[i] = id})

Reverse(q) == [i \in 1..Len(q) |-> q[Len(q) + 1 - i]]

\* C1: once rendering has settled, labState.canProceed is true exactly when the
\* completion criteria of the current step hold on the current lab state (also
\* after the water flow or the dropping is switched off again).
C1_GateIffCriteria ==
    Settled => (labState.canProceed <=> getStepCompletionCriteria(step, labState))

\* C2: once rendering has settled, unmet completion criteria mean a disabled
\* proceed button (the button reads canProceed of the last render).
C2_UnmetMeansDisabled ==
    (Settled /\ ~getStepCompletionCriteria(step, labState))
        => ~rendered.labState.canProceed

\* C3: while the heater is on the temperature never exceeds the target
\* temperature, before and after every temperature tick.
C3_NoOvershoot ==
    labState.isHeating => labState.temperature <= labState.targetTemperature

\* C3 witness: the heater is on and a tick has just clamped the temperature to the
\* target from less than one heating step below it.
C3_ClampedAtTarget ==
    /\ labState.isHeating
    /\ labState.temperature = HeatTarget
    /\ rendered.labState.isHeating
    /\ pending = 1
    /\ rendered.labState.temperature < HeatTarget
    /\ rendered.labState.temperature + HeatStep > HeatTarget

\* C4: reaction progress and crystal formation stay within 0..100 percent.
C4_ProgressInRange ==
    /\ 0 <= labState.reactionProgress /\ labState.reactionProgress <= Full
    /\ 0 <= labState.crystalFormation /\ labState.crystalFormation <= Full

\* C4 witness: both percentages have reached 100.
C4_BothFull ==
    labState.reactionProgress = Full /\ labState.crystalFormation = Full

\* C5: the flask holds each chemical at most once.
C5_AddedAtMostOnce ==
    \A c \in ChemIds : Count(labState.flaskContents, c) <= 1

\* C6: a chemical's added flag, once true, stays true in every later step.
C6_AddedNeverReverts ==
    [][\A c \in ChemIds : chemicals[c] => chemicals'[c]]_vars

\* C6 witness: the chemical dropped first is still marked added after another drop.
C6_StillAddedAfterNextDrop ==
    /\ Len(labState.flaskContents) >= 2
    /\ chemicals[labState.flaskContents[1]]
    /\ labState.flaskContents[2] # labState.flaskContents[1]

\* C7: no update is lost.  Every step extends the log and the flask contents; a
\* countdown tick raises the timer by exactly 1 and changes nothing else of
\* labState; a temperature tick leaves timer, timer switch, contents and log
\* alone; a drop leaves temperature and timer alone; only a temperature tick
\* changes the temperature and only a countdown tick changes the timer (the reset
\* button is not pressed in SpecInterleave).
C7_NoUpdateLost ==
    [][ /\ IsPrefix(labState.checkpoints, labState'.checkpoints)
        /\ IsPrefix(labState.flaskContents, labState'.flaskContents)
        /\ CountdownTick => labState' = [labState EXCEPT !.timer = labState.timer + 1]
        /\ TempTick =>
              /\ labState'.timer = labState.timer
              /\ labState'.isTimerRunning = labState.isTimerRunning
              /\ labState'.flaskContents = labState.flaskContents
              /\ labState'.checkpoints = labState.checkpoints
        /\ Drop =>
              /\ labState'.temperature = labState.temperature
              /\ labState'.timer = labState.timer
        /\ labState'.temperature # labState.temperature => TempTick
        /\ labState'.timer # labState.timer => CountdownTick
      ]_vars

\* C7 witness: a temperature tick, a countdown tick and a drop are queued together
\* and the latest state shows all three.
C7_ThreeQueued ==
    /\ pending = 3
    /\ labState.temperature = rendered.labState.temperature + HeatStep
    /\ labState.timer = rendered.labState.timer + 1
    /\ labState.flaskContents = Append(rendered.labState.flaskContents, "aniline")

\* C8: after the component unmounts no interval is live (neither the 500 ms
\* temperature interval nor a countdown interval), and the lab state no longer changes.
C8_UnmountClearsIntervals ==
    /\ [](phase = "unmounted" =>
            /\ ~tempInterval
            /\ timerIntervalRef # "live"
            /\ orphanTimers = 0)
    /\ [][phase = "unmounted" => labState' = labState]_vars

\* C8 witness: unmounted while the countdown was running; its interval is cleared.
C8_UnmountedWhileCounting ==
    /\ phase = "unmounted"
    /\ labState.isTimerRunning
    /\ timerIntervalRef = "cleared"
    /\ labState.timer > 0

C10_AdvancesToTarget ==
    /\ [][(TempTick /\ labState.isHeating /\ labState.temperature < HeatTarget)
            => labState'.temperature > labState.temperature]_vars
    /\ (labState.isHeating ~> (labState.temperature = HeatTarget \/ ~labState.isHeating))
    /\ [][(labState.isHeating /\ labState'.isHeating /\ labState.temperature = HeatTarget)
            => labState'.temperature = HeatTarget]_vars
    /\ [][(TempTick /\ labState.isCooling /\ labState.temperature > CoolTarget)
            => /\ labState'.temperature < labState.temperature
               /\ labState'.temperature >= labState.temperature - CoolStep]_vars
    /\ (labState.isCooling ~> (labState.temperature = CoolTarget \/ ~labState.isCooling))
    /\ [][(labState.isCooling /\ labState'.isCooling /\ labState.temperature = CoolTarget)
            => labState'.temperature = CoolTarget]_vars
    /\ [](labState.isCooling => labState.temperature >= CoolTarget)

\* C10 witness: cooled first, then heated up to exactly 70 with the heater still on.
C10_HeatedAfterCooling ==
    /\ labState.isHeating
    /\ labState.temperature = HeatTarget
    /\ equipment["ice_bath"]

\* C11: on a temperature tick the reaction progress becomes min(100, progress + 1.5)
\* when the flask holds at least 3 entries, the temperature computed by the tick is
\* above 60 and the stirrer runs, and is unchanged otherwise; which chemicals the
\* entries are and the seconds counted play no part.
C11_ProgressRule ==
    [][TempTick =>
          labState'.reactionProgress =
              IF /\ Len(labState.flaskContents) >= 3
                 /\ labState'.temperature > 600
                 /\ labState.stirringSpeed > 0
              THEN IF labState.reactionProgress + 15 > 1000
                   THEN 1000 ELSE labState.reactionProgress + 15
              ELSE labState.reactionProgress]_vars

\* C11 witness: aniline, glacial acetic acid and distilled water, no acetic
\* anhydride, and the reaction has progressed while a second was counted.
C11_ProgressWithoutAnhydride ==
    /\ ~Has(labState.flaskContents, "acetic_anhydride")
    /\ Len(labState.flaskContents) = 3
    /\ labState.reactionProgress > 0
    /\ labState.timer > 0

\* C12: on a temperature tick the crystal formation becomes min(100, crystals + 2)
\* when the temperature computed by the tick is below 10 and the reaction progress
\* before the tick is above 80, and is unchanged otherwise.
C12_CrystalRule ==
    [][TempTick =>
          labState'.crystalFormation =
              IF labState'.temperature < 100 /\ labState.reactionProgress > 800
              THEN IF labState.crystalFormation + 20 > 1000
                   THEN 1000 ELSE labState.crystalFormation + 20
              ELSE labState.crystalFormation]_vars

\* C12 witness: the first crystals formed on the tick that took the temperature
\* from 10 degrees or more to below 10.
C12_FirstCrystals ==
    /\ labState.crystalFormation = CrystalStep
    /\ labState.temperature < CrystalBelow
    /\ rendered.labState.temperature >= CrystalBelow
    /\ rendered.labState.crystalFormation = 0
    /\ pending = 1

\* C13: when the step changes, the gate is re-evaluated before the proceed button
\* can fire again: a render that shows another step never shows the button enabled
\* unless the completion criteria of the step it shows hold on the state it shows.
C13_GateReevaluated ==
    [][(Render /\ rendered.step # step) =>
          (rendered'.labState.canProceed =>
              getStepCompletionCriteria(rendered'.step, rendered'.labState))]_vars

\* step ids without a case in getStepCompletionCriteria: below 1 or above 5
OutsideIds == {-1, 0} \cup ((LastStepId + 1)..(MaxStepId + 1))

\* C14: a step whose id is outside 1..5 has no conditions: its criteria are true in
\* every lab state, the completion effect (on mount and after every render that
\* runs it) sets canProceed to true for it, and once rendering has settled
\* canProceed is true for it.
C14_NoConditionsOutside ==
    /\ [](\A id \in OutsideIds : getStepCompletionCriteria(id, labState))
    /\ [][(Mount /\ step \notin 1..5) => labState'.canProceed]_vars
    /\ [][(Render /\ labState' # labState /\ step \notin 1..5) => labState'.canProceed]_vars
    /\ []((Settled /\ step \notin 1..5) => labState.canProceed)

\* C14 witness: the component was mounted with step 6 and the gate is open although
\* the user has done nothing (empty flask, no equipment used, the only line of
\* the log is the completion line).
C14_OpenWithoutAction ==
    /\ Settled
    /\ step = LastStepId + 1
    /\ labState.canProceed
    /\ labState.flaskContents = << >>
    /\ \A e \in EquipIds : ~equipment[e]
    /\ Len(labState.checkpoints) = 1

\* C15: resetTimer leaves timer = 0 and isTimerRunning = false, and while the timer
\* is not started again a timer of 0 stays 0, also when a countdown callback runs
\* after the click and before the effect cleanup has cleared the interval.
C15_ResetHolds ==
    /\ [][ResetButton => (labState'.timer = 0 /\ ~labState'.isTimerRunning)]_vars
    /\ [][(labState.timer = 0 /\ ~labState.isTimerRunning /\ ~labState'.isTimerRunning)
            => labState'.timer = 0]_vars

\* C16: a countdown tick raises the timer by exactly 1; the timer rises only while
\* isTimerRunning is true; the play/pause button leaves its value unchanged; the
\* timer decreases only through resetTimer, which sets it to 0.
C16_TimerRule ==
    [][ /\ CountdownTick => labState'.timer = labState.timer + 1
        /\ labState'.timer > labState.timer =>
              (labState.isTimerRunning /\ labState'.timer = labState.timer + 1)
        /\ TimerButton => labState'.timer = labState.timer
        /\ labState'.timer < labState.timer => (ResetButton /\ labState'.timer = 0)
      ]_vars

\* countdown intervals that are running: the one held by the ref and the leaked ones
LiveCountdowns == (IF timerIntervalRef = "live" THEN 1 ELSE 0) + orphanTimers

\* C17: at most one countdown interval is running in every state; an interval is
\* created only by the render in which isTimerRunning turns from false to true (not
\* by startTimer clicked while already running), none is running once a render has
\* shown isTimerRunning false, and no interval is ever left running without the ref.
C17_OneCountdown ==
    /\ [](LiveCountdowns <= 1)
    /\ [](orphanTimers = 0)
    /\ [][(timerIntervalRef' = "live" /\ timerIntervalRef # "live") =>
            /\ Render
            /\ ~rendered.labState.isTimerRunning
            /\ rendered'.labState.isTimerRunning]_vars
    /\ []((phase = "mounted" /\ ~rendered.labState.isTimerRunning) => LiveCountdowns = 0)

\* C17 witness: started, paused and started again, or started twice before a
\* render; one interval is running and has counted.
C17_RestartedOnce ==
    /\ Count(labState.checkpoints, "Timer started") >= 2
    /\ timerIntervalRef = "live"
    /\ rendered.labState.isTimerRunning
    /\ labState.timer > 0

\* C18: a temperature tick changes only temperature, reactionProgress,
\* crystalFormation, isReacting and bubbleIntensity of labState; every other field
\* of labState, the chemicals' added flags and the equipment stay as they were.
C18_TickFrame ==
    [][TempTick =>
          /\ labState' = [labState EXCEPT
                             !.temperature = labState'.temperature,
                             !.reactionProgress = labState'.reactionProgress,
                             !.crystalFormation = labState'.crystalFormation,
                             !.isReacting = labState'.isReacting,
                             !.bubbleIntensity = labState'.bubbleIntensity]
          /\ chemicals' = chemicals
          /\ equipment' = equipment]_vars

\* C18 witness: ticks have heated the flask while the heater switch, the target,
\* the log of the two heating lines and the used flask are as startHeating left them.
C18_TickedWhileHeating ==
    /\ labState.temperature > Ambient
    /\ labState.isHeating
    /\ labState.targetTemperature = HeatTarget
    /\ Len(labState.checkpoints) = 2
    /\ equipment["round_flask"]

\* C19: flaskContents is the list of the chemicals added so far: a chemical's added
\* flag is true exactly when flaskContents holds an entry with its id, an accepted
\* drop appends its chemical and nothing else changes the list, and the list never
\* holds more than 4 entries.
C19_ContentsAreAdded ==
    /\ [](\A c \in ChemIds : chemicals[c] <=> Has(labState.flaskContents, c))
    /\ [][ /\ IsPrefix(labState.flaskContents, labState'.flaskContents)
            /\ labState'.flaskContents # labState.flaskContents =>
                  /\ Drop
                  /\ labState'.flaskContents =
                        Append(labState.flaskContents, rendered.draggedItem) ]_vars
    /\ [](Len(labState.flaskContents) <= Cardinality(ChemIds))

\* C20: every step 1..5 is completable: mounted at any of the five steps, the
\* student's actions and the ticks lead to a state in which the completion
\* criteria of that step hold and canProceed is true.
C20_EveryStepCompletable ==
    <>(labState.canProceed /\ getStepCompletionCriteria(step, labState))

\* C20 witness: step 5 is complete (31 seconds counted, crystals at 100 percent)
\* and the gate is open.
C20_LastStepComplete ==
    /\ step = LastStepId
    /\ labState.timer > 30
    /\ labState.crystalFormation = Full
    /\ labState.canProceed
    /\ rendered.labState.canProceed

C22_HeatingCoolingExclusive ==
    /\ [](~(labState.isHeating /\ labState.isCooling))
    /\ [][(labState.isCooling /\ ~labState'.isCooling) =>
            (HeatButton /\ ~rendered.labState.isHeating /\ labState'.isHeating)]_vars
    /\ [][(HeatButton /\ rendered.labState.isHeating) =>
            labState'.isCooling = labState.isCooling]_vars

\* C22 witness: the flask was in the ice bath and startHeating has switched the
\* cooling off.
C22_HeatingEndedCooling ==
    /\ labState.isHeating
    /\ ~labState.isCooling
    /\ labState.hasIce
    /\ labState.checkpoints[Len(labState.checkpoints)] = "Started heating under reflux"

\* C23: with heating and cooling both off, a tick lowers a temperature above 22 by
\* 0.3, not below 22, and leaves a temperature of 22 or less unchanged; while both
\* stay off a temperature below 22 does not change.
C23_AmbientDrift ==
    /\ [][(TempTick /\ ~labState.isHeating /\ ~labState.isCooling) =>
            labState'.temperature =
                IF labState.temperature > 220
                THEN (IF labState.temperature - 3 < 220 THEN 220
                      ELSE labState.temperature - 3)
                ELSE labState.temperature]_vars
    /\ [][(/\ ~labState.isHeating /\ ~labState.isCooling
            /\ ~labState'.isHeating /\ ~labState'.isCooling
            /\ labState.temperature < 220) =>
            labState'.temperature = labState.temperature]_vars

\* C23 witness: after cool, start heating, stop heating the flask is below 22 with
\* both switches off, and ticks since the last render have left it there.
C23_StuckBelowAmbient ==
    /\ ~rendered.labState.isHeating /\ ~rendered.labState.isCooling
    /\ rendered.labState.temperature < Ambient
    /\ rendered.labState.checkpoints = labState.checkpoints
    /\ pending = 2
    /\ labState.temperature = rendered.labState.temperature
    /\ labState.checkpoints[Len(labState.checkpoints)] = "Stopped heating"

\* C24: crystals imply a reaction past 80 percent: crystalFormation > 0 only with
\* reactionProgress > 80; and reaction progress is only gained on a tick that
\* computes a temperature above 60 with at least 3 entries in the flask and the
\* stirrer on, so any progress means the flask was heated and stirred.
C24_CrystalsAfterReaction ==
    /\ [](labState.crystalFormation > 0 => labState.reactionProgress > 800)
    /\ [][labState'.reactionProgress > labState.reactionProgress =>
            /\ TempTick
            /\ labState'.temperature > 600
            /\ Len(labState.flaskContents) >= 3
            /\ labState.stirringSpeed > 0]_vars
    /\ [](labState.reactionProgress > 0 =>
            /\ Len(labState.flaskContents) >= 3
            /\ equipment["round_flask"]
            /\ equipment["magnetic_stirrer"])

\* C24 witness: crystals have formed with the reaction at 81 percent, the least
\* progress above 80 that ticks of 1.5 reach.
C24_CrystalsAtEightyOne ==
    /\ labState.crystalFormation > 0
    /\ labState.reactionProgress = 810

\* C25: reactionProgress and crystalFormation never decrease, in any step of the
\* component (ticks, stopping the stirrer, cooling, reheating after crystals formed).
C25_ProgressMonotone ==
    [][ /\ labState'.reactionProgress >= labState.reactionProgress
        /\ labState'.crystalFormation >= labState.crystalFormation ]_vars

\* C25 witness: reheated above 60 degrees after crystals had formed, with the
\* stirrer stopped: crystals and progress are still there.
C25_ReheatedWithCrystals ==
    /\ labState.isHeating
    /\ labState.temperature > ReactAbove
    /\ labState.crystalFormation > 0
    /\ labState.stirringSpeed = 0

\* the line the completion effect appends for step n
CompletionLine(n) == "Step " \o ToString(n) \o " requirements completed successfully"

\* C26: the checkpoint "Step N requirements completed successfully" is appended
\* exactly once in every transition that turns canProceed from false to true,
\* and in no other transition: not while canProceed stays true across later
\* runs of the completion effect, and no line of another step is appended.
C26_CompletionLoggedOnce ==
    [][ LET old == labState.checkpoints
            new == labState'.checkpoints
            added == SubSeq(new, Len(old) + 1, Len(new))
        IN  /\ IsPrefix(old, new)
            /\ Count(added, CompletionLine(step)) =
                   IF ~labState.canProceed /\ labState'.canProceed THEN 1 ELSE 0
            /\ \A n \in 1..MaxStepId :
                   n # step => Count(added, CompletionLine(n)) = 0 ]_vars

\* C26 witness: the criteria of step 3 were met, lost on reheating and met again
\* on cooling, and the effect kept running until the crystals were complete: the
\* log holds two completion lines.
C26_CompletedTwice ==
    /\ labState.canProceed
    /\ labState.crystalFormation = Full
    /\ Count(labState.checkpoints, CompletionLine(step)) = 2

\* the lines a step appends to the progress log
Appended == SubSeq(labState'.checkpoints, Len(labState.checkpoints) + 1,
                   Len(labState'.checkpoints))

\* a step that turns a flag on marks the equipment used and logs "Used", "Started";
\* a step that turns it off logs "Stopped" and nothing else
LoggedAsSwitched(was, is, equipmentId, started, stopped) ==
    /\ (~was /\ is) =>
          /\ Appended = <<"Used " \o EquipName(equipmentId), started>>
          /\ equipment'[equipmentId]
    /\ (was /\ ~is) =>
          /\ Appended = <<stopped>>
          /\ equipment' = equipment

\* C27: for toggleWaterFlow and toggleDropping the logged direction matches the
\* actual transition: a step that turns the flag from false to true marks the
\* equipment used and appends "Started ...", a step that turns it from true to
\* false appends "Stopped ...", also for two toggles before a render.
C27_LoggedDirectionMatches ==
    [][ /\ LoggedAsSwitched(labState.waterFlow, labState'.waterFlow, "condenser",
                            "Started cooling water flow",
                            "Stopped cooling water flow")
        /\ LoggedAsSwitched(labState.isDropping, labState'.isDropping,
                            "dropping_funnel",
                            "Started dropwise addition of acetic anhydride",
                            "Stopped dropwise addition") ]_vars

\* C28: after every temperature tick isReacting is true exactly when the new
\* temperature is above 60 degrees, the flask holds at least 3 chemicals and the
\* stirrer runs; no other step changes the flag, so after the stirrer is stopped
\* it keeps its value until the next tick.
C28_ReactingSetByTick ==
    [][ /\ labState' = TemperatureTick(labState) =>
              (labState'.isReacting <=>
                  /\ labState'.temperature > ReactAbove
                  /\ Len(labState'.flaskContents) >= MinContents
                  /\ labState'.stirringSpeed > 0)
        /\ labState'.isReacting # labState.isReacting =>
              labState' = TemperatureTick(labState) ]_vars

\* C28 witness: the stirrer was stopped in a reacting flask and no tick has run
\* since: the flag is still true.
C28_StoppedStirringStillReacting ==
    /\ labState.isReacting
    /\ labState.stirringSpeed = 0
    /\ labState.temperature > ReactAbove
    /\ Len(labState.flaskContents) >= MinContents

====
